---- MODULE Spec2Model ----
(***************************************************************************)
(* Concierge AI: the query-routing and retrieval pipeline.                 *)
(*                                                                         *)
(* Texts are sequences of word tokens; a word-boundary regex search of a   *)
(* keyword is a search for its tokens as a contiguous run.  Real-valued    *)
(* scores are fixed-point integers: similarities, relevance scores and     *)
(* ratings in hundredths, confidence in 1/100000 (so 0.60 is 60000 and     *)
(* 0.95 is 95000).  Floating-point rounding is not modelled.               *)
(*                                                                         *)
(* The specifications share the variables:                                 *)
(*   Spec            receive -> score complexity -> route -> respond       *)
(*   SpecRoute       the routing decision applied to arbitrary triples     *)
(*   SpecConfidence  retrieve -> generate -> confidence                    *)
(*   SpecHybrid      the hybrid_search_knowledge_documents SQL function    *)
(*   SpecExpert      the expert matcher, run twice on one request          *)
(*   SpecRuns        process_query run twice on one query                  *)
(*   SpecRequest     the chat page and one request through the pipeline,   *)
(*                   every external call answering, failing or running     *)
(*                   out of time; SpecRequestFair adds weak fairness       *)
(*   SpecClassify    the intent classifier on its own                      *)
(*   SpecExpand      neighbour-chunk expansion and the context block       *)
(*   SpecLLM         one completion through the provider fallback chain    *)
(*   SpecInit        lazy service initialization, concurrent requests      *)
(*   SpecChat        the chat page over several queries                    *)
(*   SpecStoredExperts  the matcher on NULL and zero-norm embeddings       *)
(***************************************************************************)
EXTENDS Integers, Sequences, FiniteSets, TLC

VARIABLES
    pc,               \* position of the request in its specification
    query,            \* the query text (token sequence)
    intent,           \* the classified intent
    complexity_score, \* score_complexity's result
    urgency,          \* the urgency flag found by the scorer
    confidence,       \* the confidence of the answer (1/100000)
    route_decision,   \* "ai" or "human"
    documents,        \* the final candidate set handed to the generator
    cleaned_answer,   \* the answer text after citation cleaning
    store,            \* knowledge_documents, as scored against the query
    match_count,      \* hybrid search parameter
    weights,          \* <<bm25_weight, vector_weight>> in tenths
    vector_results,   \* ids of the vector_results CTE of the last run
    rows,             \* rows returned by the last hybrid search
    prev_rows,        \* rows returned by the run before it
    runs,             \* number of hybrid searches run on this store/query
    experts,          \* the experts table
    query_embedding,  \* embedding of the query
    scores,           \* score breakdown per expert
    best,             \* id of the expert the matcher returned (0: none yet)
    prev_best,        \* id of the expert the matcher returned the run before
    prev_intent,           \* the intent the run before returned
    prev_complexity_score, \* the complexity score the run before returned
    prev_route_decision,   \* the route the run before returned
    run,                   \* number of pipeline runs on this query
    history,          \* the conversation's stored history lines
    standalone_query, \* the query the retrieval runs with
    calls,            \* the service calls of the request: <<service, result>>
    candidates,       \* the rows hybrid_search returned
    reranker,         \* whether self.reranker is set
    messages,         \* the chat page's message list
    input,            \* the chat page's input text
    isLoading,        \* the chat page's loading flag
    conversationId,   \* the chat page's conversation id
    dropped,           \* number of handleSend calls that returned at the guard
    intent_confidence, \* the classifier's confidence in the intent (hundredths)
    expand_by,        \* the window of expand_chunks
    expanded,         \* what expand_chunks returned
    context,           \* the context block built from the final documents
    provider,         \* index in the chain of the provider to call next
    retries,          \* retries already spent on that provider
    llm_attempts,     \* the provider calls of one completion, in order
    completion,        \* the text the completion returned
    expert,           \* the expert attached to the QueryResponse
    matchedExpert,     \* the expert whose profile card the page shows
    threads,          \* the request threads of one function instance
    lock,             \* the thread inside the initialization, 0 when none
    services_initialized,\* the global _services_initialized flag
    cache,            \* the getters whose lru_cache holds an instance
    constructed,      \* how many times each client was constructed
    initializations,   \* how many times the services were initialized
    inflight,         \* the sendQuery calls that have not settled
    sent,             \* every sendQuery call of the page: its conversation id and outcome
    last_event,        \* what the page did last
    raised            \* the exception find_best_expert ended with, "none" when it returned

vars == <<pc, query, intent, complexity_score, urgency, confidence,
          route_decision, documents, cleaned_answer, store, match_count,
          weights, vector_results, rows, prev_rows, runs, experts,
          query_embedding, scores, best, prev_best,
          prev_intent, prev_complexity_score, prev_route_decision, run,
          history, standalone_query, calls, candidates, reranker,
          messages, input, isLoading, conversationId, dropped,
          intent_confidence,
          expand_by, expanded, context,
          provider, retries, llm_attempts, completion,
          expert, matchedExpert,
          threads, lock, services_initialized, cache, constructed, initializations,
          inflight, sent, last_event,
          raised>>

routeVars  == <<query, intent, complexity_score, urgency, confidence, route_decision>>
answerVars == <<documents, cleaned_answer>>
hybridVars == <<store, match_count, weights, vector_results, rows, prev_rows, runs>>
expertVars == <<experts, query_embedding, scores, best, prev_best>>
runVars    == <<prev_intent, prev_complexity_score, prev_route_decision, run>>
requestVars == <<history, standalone_query, calls, candidates, reranker, expert>>
chatVars   == <<messages, input, isLoading, conversationId, dropped,
                matchedExpert>>
classifyVars == <<intent_confidence>>
expandVars == <<expand_by, expanded, context>>
llmVars == <<provider, retries, llm_attempts, completion>>
initVars == <<threads, lock, services_initialized, cache, constructed,
              initializations>>
sendVars == <<inflight, sent, last_event>>
storedVars == <<raised>>
componentVars == <<classifyVars, expandVars, llmVars, initVars, sendVars,
                   storedVars>>
sessionVars == <<runVars, requestVars, chatVars, componentVars>>

None == "none"

----------------------------------------------------------------------------
(* Bounds of the model *)

MaxQueryLen == 2
MaxAnswerLen == 3
MaxDocs == 2
MaxStoreDocs == 3
MaxMatchCount == 2
MaxExperts == 2

----------------------------------------------------------------------------
(* Text helpers *)

Max(a, b) == IF a >= b THEN a ELSE b
Min(a, b) == IF a <= b THEN a ELSE b

\* All token sequences over alphabet S of length at most n
SeqsUpTo(S, n) == UNION {[1..k -> S] : k \in 0..n}

\* str.lower() on one word
LowerWord(w) ==
    CASE w = "Audit" -> "audit"
      [] w = "Consult" -> "consult"
      [] OTHER -> w

\* str.lower() on a text
lower(text) == [i \in 1..Len(text) |-> LowerWord(text[i])]

\* the tokens of kw occur in text as a contiguous run starting at i
MatchAt(text, kw, i) ==
    /\ i + Len(kw) - 1 <= Len(text)
    /\ \A j \in 1..Len(kw) : text[i + j - 1] = kw[j]

\* re.search(r'\b' + re.escape(kw) + r'\b', text) is not None
re_search(kw, text) == \E i \in 1..Len(text) : MatchAt(text, kw, i)

----------------------------------------------------------------------------
(* Complexity scorer *)

QueryWords == {"what", "audit", "Audit", "international", "capital", "gains"}
Queries == SeqsUpTo(QueryWords, MaxQueryLen)

\* the five intents of the classifier, and one the score table does not know
Intents == {"simple_tax", "complex_tax", "bookkeeping", "urgent", "general"}
IntentInputs == Intents \cup {"other"}

\* intent_scores.get(intent, 3)
intent_scores_get(i) ==
    CASE i = "simple_tax" -> 2
      [] i = "complex_tax" -> 3
      [] i = "urgent" -> 5
      [] OTHER -> 3

complex_keywords == {<<"international">>, <<"capital", "gains">>, <<"partnership">>}

urgency_keywords == {<<"audit">>, <<"deadline">>}

\* the scorer's urgency-indicator test
has_urgency(q) == \E kw \in urgency_keywords : re_search(kw, lower(q))

complex_count(q) == Cardinality({kw \in complex_keywords : re_search(kw, lower(q))})

\* a scorer that adds the keyword count to the base score
score_complexity_additive(q, i) ==
    LET base_score == intent_scores_get(i)
        adjusted == base_score + complex_count(q)
    IN IF has_urgency(q) THEN 5 ELSE adjusted

\* a scorer whose urgency override only raises the score to the expert level
score_complexity_weak_override(q, i) ==
    LET base_score == intent_scores_get(i)
        adjusted == IF complex_count(q) > 0 THEN Max(base_score, 4) ELSE base_score
    IN IF has_urgency(q) THEN Max(adjusted, 4) ELSE adjusted

score_complexity(q, i) ==
    LET base_score == intent_scores_get(i)
        adjusted == IF complex_count(q) > 0 THEN Max(base_score, 4) ELSE base_score
    IN IF has_urgency(q) THEN 5 ELSE adjusted

----------------------------------------------------------------------------
(* Intent classifier: SimpleIntentClassifier *)

\* self.intent_patterns: each pattern is the set of token runs its regex
\* matches (audite?d? matches audit and audited, gains? gain and gains)
intent_patterns(i) ==
    CASE i = "urgent" ->
           {{<<"audit">>, <<"audited">>}, {<<"irs">>}, {<<"penalty">>}}
      [] i = "complex_tax" ->
           {{<<"capital", "gain">>, <<"capital", "gains">>}, {<<"crypto">>},
            {<<"staking">>}}
      [] i = "simple_tax" ->
           {{<<"standard", "deduction">>}, {<<"w-2">>, <<"w2">>}, {<<"1040">>}}
      [] OTHER -> {}

\* number of patterns of the intent that match the text (re.IGNORECASE)
matched_patterns(q, i) ==
    Cardinality({p \in intent_patterns(i) : \E kw \in p : re_search(kw, lower(q))})

\* a tie-break order that prefers the simpler intent
intent_priority_reversed(i) ==
    CASE i = "urgent" -> 1
      [] i = "complex_tax" -> 2
      [] i = "bookkeeping" -> 3
      [] i = "simple_tax" -> 4
      [] OTHER -> 5

\* rank of an intent in the tie-break order, highest first
intent_priority(i) ==
    CASE i = "urgent" -> 5
      [] i = "complex_tax" -> 4
      [] i = "bookkeeping" -> 3
      [] i = "simple_tax" -> 2
      [] OTHER -> 1

\* the intent with the most matched patterns, ties by priority; general
\* when nothing matches
classify(q) ==
    LET hit == {i \in Intents : matched_patterns(q, i) > 0}
        top == {i \in hit : \A j \in hit : matched_patterns(q, i) >= matched_patterns(q, j)}
    IN IF hit = {} THEN "general"
       ELSE CHOOSE i \in top : \A j \in top : intent_priority(i) >= intent_priority(j)

\* the matched share of the winning intent's patterns, in hundredths; 0
\* when nothing matches
classify_confidence(q) ==
    LET i == classify(q)
    IN IF intent_patterns(i) = {} THEN 0
       ELSE (matched_patterns(q, i) * 100) \div Cardinality(intent_patterns(i))

----------------------------------------------------------------------------
(* Routing decision *)

\* confidences the routing decision is exercised with (1/100000)
ConfidenceSamples == {-14000, 0, 21000, 59999, 60000, 60001, 70000, 82000, 91000, 95000}

\* a routing decision that looks at the confidence alone
decide_route_confidence_only(c, conf, u) ==
    IF conf < 60000 THEN "human" ELSE "ai"

\* a routing decision that escalates at confidence 0.60 too
decide_route_le(c, conf, u) ==
    IF c >= 4 \/ conf <= 60000 \/ u THEN "human" ELSE "ai"

decide_route(c, conf, u) ==
    IF c >= 4 \/ conf < 60000 \/ u THEN "human" ELSE "ai"

----------------------------------------------------------------------------
(* Idle values of the variable groups a specification does not use *)

IdleRoute ==
    /\ query = None /\ intent = None /\ complexity_score = None
    /\ urgency = None /\ confidence = None /\ route_decision = None
IdleAnswer == documents = None /\ cleaned_answer = None
IdleHybrid ==
    /\ store = None /\ match_count = None /\ weights = None
    /\ vector_results = None /\ rows = None /\ prev_rows = None /\ runs = None
IdleExpert ==
    /\ experts = None /\ query_embedding = None /\ scores = None
    /\ best = None /\ prev_best = None
IdleRuns ==
    /\ prev_intent = None /\ prev_complexity_score = None
    /\ prev_route_decision = None /\ run = None
IdleRequest ==
    /\ history = None /\ standalone_query = None /\ calls = None
    /\ candidates = None /\ reranker = None /\ expert = None
IdleChat ==
    /\ messages = None /\ input = None /\ isLoading = None
    /\ conversationId = None /\ dropped = None /\ matchedExpert = None
IdleClassify == intent_confidence = None
IdleExpand == expand_by = None /\ expanded = None /\ context = None
IdleLLM ==
    /\ provider = None /\ retries = None
    /\ llm_attempts = None /\ completion = None
IdleInit ==
    /\ threads = None /\ lock = None /\ services_initialized = None
    /\ cache = None /\ constructed = None /\ initializations = None
IdleSend == inflight = None /\ sent = None /\ last_event = None
IdleStored == raised = None
IdleComponents ==
    /\ IdleClassify /\ IdleExpand /\ IdleLLM /\ IdleInit /\ IdleSend
    /\ IdleStored
IdleSession == IdleRuns /\ IdleRequest /\ IdleChat /\ IdleComponents

----------------------------------------------------------------------------
(* Spec: a request from the chat page through scoring to the routed response *)

Init == pc = "start" /\ IdleRoute /\ IdleAnswer /\ IdleHybrid /\ IdleExpert /\ IdleSession

\* handleSend: an empty text is dropped, anything else is sent
Submit ==
    /\ pc = "start"
    /\ \E q \in Queries :
        IF q = <<>>
        THEN pc' = "rejected" /\ UNCHANGED query
        ELSE pc' = "received" /\ query' = q
    /\ UNCHANGED <<intent, complexity_score, urgency, confidence, route_decision,
                   answerVars, hybridVars, expertVars, sessionVars>>

\* stage 1: the classifier's tag for the query
ClassifyIntent ==
    /\ pc = "received"
    /\ \E i \in IntentInputs : intent' = i
    /\ pc' = "classified"
    /\ UNCHANGED <<query, complexity_score, urgency, confidence, route_decision,
                   answerVars, hybridVars, expertVars, sessionVars>>

\* stage 2: score_complexity(query, intent)
ScoreComplexity ==
    /\ pc = "classified"
    /\ complexity_score' = score_complexity(query, intent)
    /\ urgency' = has_urgency(query)
    /\ pc' = "scored"
    /\ UNCHANGED <<query, intent, confidence, route_decision,
                   answerVars, hybridVars, expertVars, sessionVars>>

\* stages 3-4: the answer's confidence arrives and the route is decided
RouteRequest ==
    /\ pc = "scored"
    /\ \E conf \in ConfidenceSamples :
        /\ confidence' = conf
        /\ route_decision' = decide_route(complexity_score, conf, urgency)
    /\ pc' = "responded"
    /\ UNCHANGED <<query, intent, complexity_score, urgency,
                   answerVars, hybridVars, expertVars, sessionVars>>

Next == Submit \/ ClassifyIntent \/ ScoreComplexity \/ RouteRequest

Spec == Init /\ [][Next]_vars

----------------------------------------------------------------------------
(* SpecRoute: the routing decision over its whole input table *)

InitRoute ==
    /\ pc = "table"
    /\ query = None /\ intent = None
    /\ complexity_score \in 1..5
    /\ confidence \in ConfidenceSamples
    /\ urgency \in BOOLEAN
    /\ route_decision = None
    /\ IdleAnswer /\ IdleHybrid /\ IdleExpert /\ IdleSession

RouteTableRow ==
    /\ pc = "table"
    /\ route_decision' = decide_route(complexity_score, confidence, urgency)
    /\ pc' = "table_done"
    /\ UNCHANGED <<query, intent, complexity_score, urgency, confidence,
                   answerVars, hybridVars, expertVars, sessionVars>>

NextRoute == RouteTableRow

SpecRoute == InitRoute /\ [][NextRoute]_vars

----------------------------------------------------------------------------
(* Answer post-processing and confidence *)

AnswerWords == {"Consult", "an", "expert", "[1]", "[Source 1: Guide]", "NL", "References:"}
Answers == SeqsUpTo(AnswerWords, MaxAnswerLen)

IsCitation(w) == w = "[1]"
IsNewline(w) == w = "NL"
IsPlain(w) == ~IsCitation(w) /\ ~IsNewline(w) /\ w # "[Source 1: Guide]"

\* 1. re.sub(r'\[Source\s+(\d+):\s+[^\]]+\]', r'[\1]', ...)
shorten_citations(text) ==
    [k \in 1..Len(text) |-> IF text[k] = "[Source 1: Guide]" THEN "[1]" ELSE text[k]]

\* 2. re.sub(r'\n\s*References?:.*$', '', ..., flags=re.DOTALL | re.IGNORECASE):
\* everything from the first newline that leads to a References: heading
remove_references(text) ==
    LET starts == {k \in 1..Len(text) :
                     /\ IsNewline(text[k])
                     /\ \E j \in (k + 1)..Len(text) :
                          /\ text[j] = "References:"
                          /\ \A m \in (k + 1)..(j - 1) : IsNewline(text[m])}
    IN IF starts = {} THEN text
       ELSE SubSeq(text, 1, (CHOOSE k \in starts : \A m \in starts : k <= m) - 1)

\* first position from k on whose token fails test P (Len + 1 if none)
RECURSIVE SkipNewlines(_, _)
SkipNewlines(text, k) ==
    IF k <= Len(text) /\ IsNewline(text[k]) THEN SkipNewlines(text, k + 1) ELSE k

RECURSIVE SkipPlain(_, _)
SkipPlain(text, k) ==
    IF k <= Len(text) /\ IsPlain(text[k]) THEN SkipPlain(text, k + 1) ELSE k

\* 3. re.sub(r'\[(\d+)\]\s+[^[\n]+?(?=\n|$)', r'[\1]', ...): the words that
\* follow a citation up to the end of the line are dropped
RECURSIVE strip_after_citation(_, _)
strip_after_citation(text, k) ==
    IF k > Len(text) THEN <<>>
    ELSE IF IsCitation(text[k])
         THEN LET j == SkipNewlines(text, k + 1)
                  e == SkipPlain(text, j)
              IN IF e > j /\ (e > Len(text) \/ IsNewline(text[e]))
                 THEN <<text[k]>> \o strip_after_citation(text, e)
                 ELSE <<text[k]>> \o strip_after_citation(text, k + 1)
         ELSE <<text[k]>> \o strip_after_citation(text, k + 1)

clean_answer(content) ==
    strip_after_citation(remove_references(shorten_citations(content)), 1)

\* bool(re.search(r'\[\d+\]', cleaned_answer))
citations_found(answer) == \E k \in 1..Len(answer) : IsCitation(answer[k])

referral_phrase == <<"consult", "an", "expert">>

\* a test for the referral phrase that does not lower-case the answer
suggests_expert_case_sensitive(answer) == re_search(referral_phrase, answer)

\* 'consult an expert' in cleaned_answer.lower()
suggests_expert(answer) == re_search(referral_phrase, lower(answer))

\* the final candidate sets: every document carries its similarity, and its
\* rerank_score when the reranker ran (similarity, rerank score in hundredths)
Similarities == {-50, 50, 100}
RerankScores == {0, 90}
PlainDocs == [similarity : Similarities, reranked : {FALSE}, rerank_score : {0}]
RerankedDocs == [similarity : Similarities, reranked : {TRUE}, rerank_score : RerankScores]
DocumentSets == SeqsUpTo(PlainDocs, MaxDocs) \cup SeqsUpTo(RerankedDocs, MaxDocs)

SetMax(S) == CHOOSE x \in S : \A y \in S : y <= x

\* max(doc.get('similarity', 0) for doc in documents)
max_similarity(docs) == SetMax({docs[k].similarity : k \in 1..Len(docs)})

\* max(doc.get('rerank_score', 0) for doc in documents) if documents else 0
max_rerank_score(docs) ==
    IF docs = <<>> THEN 0
    ELSE SetMax({IF docs[k].reranked THEN docs[k].rerank_score ELSE 0 :
                   k \in 1..Len(docs)})

\* calculate_confidence with llm_confidence 0.7; the result is in 1/100000
calculate_confidence(max_sim, rerank, has_citations) ==
    LET retrieval == IF rerank # 0 THEN max_sim * 6 + rerank * 4 ELSE max_sim * 10
        boosted == IF has_citations THEN Min(10000, retrieval * 11) ELSE retrieval * 10
        combined == boosted * 7 + 21000
    IN Min(95000, combined)

\* a deflation that forgets the min and sets the ceiling value
deflate_to_ceiling(conf, answer) ==
    IF suggests_expert(answer) THEN Min(conf, 75000) ELSE conf

\* if 'consult an expert' in cleaned_answer.lower(): min(confidence, 0.7)
deflate(conf, answer) ==
    IF suggests_expert(answer) THEN Min(conf, 70000) ELSE conf

----------------------------------------------------------------------------
(* SpecConfidence: retrieval result -> generated answer -> confidence *)

InitConfidence ==
    /\ pc = "start" /\ IdleRoute /\ IdleAnswer /\ IdleHybrid /\ IdleExpert /\ IdleSession

\* retrieve_documents returns the final candidate set
RetrieveDocuments ==
    /\ pc = "start"
    /\ \E docs \in DocumentSets : documents' = docs
    /\ pc' = "retrieved"
    /\ UNCHANGED <<routeVars, cleaned_answer, hybridVars, expertVars, sessionVars>>

\* the LLM's answer, citation-cleaned
GenerateAnswer ==
    /\ pc = "retrieved"
    /\ \E content \in Answers : cleaned_answer' = clean_answer(content)
    /\ pc' = "generated"
    /\ UNCHANGED <<routeVars, documents, hybridVars, expertVars, sessionVars>>

\* the confidence of the answer; max() of no document raises ValueError
ComputeConfidence ==
    /\ pc = "generated"
    /\ IF documents = <<>>
       THEN pc' = "error" /\ UNCHANGED confidence
       ELSE /\ confidence' =
                 deflate(calculate_confidence(max_similarity(documents),
                                              max_rerank_score(documents),
                                              citations_found(cleaned_answer)),
                         cleaned_answer)
            /\ pc' = "answered"
    /\ UNCHANGED <<query, intent, complexity_score, urgency, route_decision,
                   answerVars, hybridVars, expertVars, sessionVars>>

NextConfidence == RetrieveDocuments \/ GenerateAnswer \/ ComputeConfidence

SpecConfidence == InitConfidence /\ [][NextConfidence]_vars

----------------------------------------------------------------------------
(* Hybrid search: hybrid_search_knowledge_documents *)

\* what Postgres computes for one document against the query: whether
\* content_tsv @@ query, ts_rank_cd, and 1 - (embedding <=> query_embedding)
\* (bm25 and similarity in hundredths)
Bm25Scores == {30, 60}
VectorSimilarities == {-20, 30, 60}
DocScores ==
    [matches : {TRUE}, bm25 : Bm25Scores, similarity : VectorSimilarities]
      \cup [matches : {FALSE}, bm25 : {0}, similarity : VectorSimilarities]

\* knowledge_documents: ids 1..n, each with its scores against the query
Stores == UNION {[1..n -> DocScores] : n \in 1..MaxStoreDocs}

\* <<bm25_weight, vector_weight>> in tenths; the defaults are 0.5 / 0.5
Weights == {<<5, 5>>, <<3, 7>>}

\* WHERE kd.content_tsv @@ websearch_to_tsquery('english', query_text)
bm25_results(st) == {d \in DOMAIN st : st[d].matches}

\* ORDER BY kd.embedding <=> query_embedding LIMIT match_count * 2: every
\* set of that many nearest documents (ties at the cut fall either way)
vector_results_of(st, k) ==
    {V \in SUBSET DOMAIN st :
        /\ Cardinality(V) = Min(2 * k, Cardinality(DOMAIN st))
        /\ \A d \in V : \A e \in (DOMAIN st) \ V :
              st[d].similarity >= st[e].similarity}

\* a join row that reads the document's similarity even when the vector
\* leg did not return the document
merge_row_no_coalesce(st, d, inB, inV, w) ==
    LET b == IF inB THEN st[d].bm25 ELSE 0
        v == st[d].similarity
    IN [id |-> d, bm25_score |-> b, similarity |-> v,
        combined_score |-> b * w[1] + v * w[2]]

\* one row of the FULL OUTER JOIN with its COALESCEd scores
merge_row(st, d, inB, inV, w) ==
    LET b == IF inB THEN st[d].bm25 ELSE 0
        v == IF inV THEN st[d].similarity ELSE 0
    IN [id |-> d, bm25_score |-> b, similarity |-> v,
        combined_score |-> b * w[1] + v * w[2]]

\* bm25_results b FULL OUTER JOIN vector_results v ON b.id = v.id
merged_rows(st, V, w) ==
    {merge_row(st, d, d \in bm25_results(st), d \in V, w) :
        d \in bm25_results(st) \cup V}

Range(f) == {f[k] : k \in DOMAIN f}

\* an ORDER BY that sorts ascending
order_limit_ascending(R, k) ==
    LET n == Min(k, Cardinality(R))
    IN {r \in [1..n -> R] :
          /\ \A a, b \in 1..n : a < b => r[a] # r[b]
          /\ \A a, b \in 1..n : a < b => r[a].combined_score <= r[b].combined_score
          /\ \A x \in R \ Range(r) : \A a \in 1..n :
                x.combined_score >= r[a].combined_score}

\* ORDER BY combined_score DESC LIMIT match_count: every result Postgres may
\* return (rows of equal combined_score come in any order)
order_limit(R, k) ==
    LET n == Min(k, Cardinality(R))
    IN {r \in [1..n -> R] :
          /\ \A a, b \in 1..n : a < b => r[a] # r[b]
          /\ \A a, b \in 1..n : a < b => r[a].combined_score >= r[b].combined_score
          /\ \A x \in R \ Range(r) : \A a \in 1..n :
                x.combined_score <= r[a].combined_score}

----------------------------------------------------------------------------
(* SpecHybrid: repeated runs of the hybrid search on one store and query *)

InitHybrid ==
    /\ pc = "search"
    /\ IdleRoute /\ IdleAnswer /\ IdleExpert /\ IdleSession
    /\ store \in Stores
    /\ match_count \in 0..MaxMatchCount
    /\ weights \in Weights
    /\ vector_results = {}
    /\ rows = <<>>
    /\ prev_rows = <<>>
    /\ runs = 0

\* one call of hybrid_search_knowledge_documents(query_text, query_embedding,
\* match_count, bm25_weight, vector_weight)
HybridSearch ==
    /\ pc = "search"
    /\ runs < 2    \* a run and its repetition
    /\ \E V \in vector_results_of(store, match_count) :
         \E r \in order_limit(merged_rows(store, V, weights), match_count) :
            /\ vector_results' = V
            /\ rows' = r
    /\ prev_rows' = rows
    /\ runs' = runs + 1
    /\ UNCHANGED <<pc, routeVars, answerVars, store, match_count, weights, expertVars, sessionVars>>

NextHybrid == HybridSearch

SpecHybrid == InitHybrid /\ [][NextHybrid]_vars

----------------------------------------------------------------------------
(* Expert matcher: find_best_expert *)

\* the weights of the final score, in hundredths
specialty_weight == 40
availability_weight == 30
performance_weight == 20
semantic_weight == 10

\* embeddings are short integer vectors whose norms are whole numbers
QueryEmbeddings == {<<1, 0>>, <<4, 3>>}
ExpertEmbeddings == {<<3, 4>>, <<-1, 0>>}

\* rows of the experts table (avg_rating in tenths)
ExpertProfiles ==
    [specialties : {{"tax", "crypto"}, {"bookkeeping"}},
     status : {"available", "busy", "offline"},
     avg_rating : {0, 25, 45},
     expertise_embedding : ExpertEmbeddings]
ExpertLists == UNION {[1..n -> ExpertProfiles] : n \in 1..MaxExperts}

\* the intents the matcher is called with
MatcherIntents == {"bookkeeping", "complex_tax"}

\* sum(a * b for a, b in zip(x, y))
dot_product(x, y) == x[1] * y[1] + x[2] * y[2]

\* math.sqrt of a perfect square
sqrt(n) == CHOOSE r \in 0..n : r * r = n

norm(x) == sqrt(dot_product(x, x))

\* dot_product / (norm_q * norm_e), in hundredths
cosine_similarity(q, e) == (dot_product(q, e) * 100) \div (norm(q) * norm(e))

\* a specialty score without the baseline for a missing specialty
specialty_score_no_baseline(e, i) == IF i \in e.specialties THEN 100 ELSE 0

\* 1.0 if intent in expert['specialties'] else 0.3
specialty_score(e, i) == IF i \in e.specialties THEN 100 ELSE 30

\* 1.0 if expert['status'] == 'available' else 0.3
availability_score(e) == IF e.status = "available" THEN 100 ELSE 30

\* expert['avg_rating'] / 5.0
performance_score(e) == e.avg_rating * 2

\* weighted sum (1/10000), kept in 1/100000 so that * 1.2 stays whole
weighted_sum(sp, av, pf, sm) ==
    sp * specialty_weight + av * availability_weight
      + pf * performance_weight + sm * semantic_weight

\* a final score boosted for every expert once urgency is set
final_score_boost_all(e, sp, av, pf, sm, urg) ==
    IF urg
    THEN weighted_sum(sp, av, pf, sm) * 12
    ELSE weighted_sum(sp, av, pf, sm) * 10

\* the weighted score, * 1.2 if urgency and expert['status'] == 'available'
final_score(e, sp, av, pf, sm, urg) ==
    IF urg /\ e.status = "available"
    THEN weighted_sum(sp, av, pf, sm) * 12
    ELSE weighted_sum(sp, av, pf, sm) * 10

\* the body of the loop over the experts
score_expert(e, i, urg, q) ==
    LET sp == specialty_score(e, i)
        av == availability_score(e)
        pf == performance_score(e)
        sm == cosine_similarity(q, e.expertise_embedding)
    IN [specialty_score |-> sp, availability_score |-> av,
        performance_score |-> pf, semantic_score |-> sm,
        final_score |-> final_score(e, sp, av, pf, sm, urg)]

\* a matcher that returns an expert every other expert outscores
highest_scoring_lowest(sc) ==
    {k \in 1..Len(sc) : \A j \in 1..Len(sc) : sc[k].final_score <= sc[j].final_score}

\* the experts no other expert outscores.  The experts are read with
\* select('*') and no ORDER BY, so the order of the list is the database's
\* choice on each run; the matcher's pick among equal scores follows it.
highest_scoring(sc) ==
    {k \in 1..Len(sc) : \A j \in 1..Len(sc) : sc[k].final_score >= sc[j].final_score}

----------------------------------------------------------------------------
(* SpecExpert: the matcher scoring the experts of a HUMAN-routed request *)

InitExpert ==
    /\ pc = "match"
    /\ query = None /\ complexity_score = None /\ confidence = None
    /\ route_decision = "human"
    /\ intent \in MatcherIntents
    /\ urgency \in BOOLEAN
    /\ IdleAnswer /\ IdleHybrid /\ IdleSession
    /\ experts \in ExpertLists
    /\ query_embedding \in QueryEmbeddings
    /\ scores = <<>>
    /\ best = 0 /\ prev_best = 0

\* find_best_expert(query, intent, urgency): the scoring loop and the return
\* of the best-scoring expert; the matcher is run on a request and once more
\* on the same request
FindBestExpert ==
    /\ pc \in {"match", "matched"}
    /\ scores' = [k \in 1..Len(experts) |->
                     score_expert(experts[k], intent, urgency, query_embedding)]
    /\ best' \in highest_scoring(scores')
    /\ prev_best' = best
    /\ pc' = (IF pc = "match" THEN "matched" ELSE "matched_again")
    /\ UNCHANGED <<routeVars, answerVars, hybridVars, experts, query_embedding,
                   sessionVars>>

NextExpert == FindBestExpert

SpecExpert == InitExpert /\ [][NextExpert]_vars

----------------------------------------------------------------------------
(* SpecRuns: process_query run twice on one query.  The conversation       *)
(* history and the answers of the external services (embedding, retrieval, *)
(* rerank, LLM) reach the returned intent, score and route only through    *)
(* the confidence, which therefore is free in each run.                    *)

InitRuns ==
    /\ pc = "run"
    /\ query \in Queries \ {<<>>}
    /\ intent = None /\ complexity_score = 0 /\ urgency = FALSE
    /\ confidence = 0 /\ route_decision = None
    /\ IdleAnswer /\ IdleHybrid /\ IdleExpert /\ IdleRequest /\ IdleChat
    /\ IdleComponents
    /\ prev_intent = None /\ prev_complexity_score = 0
    /\ prev_route_decision = None
    /\ run = 0

\* process_query: classify, score, answer with some confidence, route
ProcessQuery ==
    /\ pc = "run"
    /\ run < 2    \* a run and its repetition
    /\ intent' = classify(query)
    /\ complexity_score' = score_complexity(query, intent')
    /\ urgency' = has_urgency(query)
    /\ \E conf \in ConfidenceSamples :
        /\ confidence' = conf
        /\ route_decision' = decide_route(complexity_score', conf, urgency')
    /\ prev_intent' = intent
    /\ prev_complexity_score' = complexity_score
    /\ prev_route_decision' = route_decision
    /\ run' = run + 1
    /\ UNCHANGED <<pc, query, answerVars, hybridVars, expertVars,
                   requestVars, chatVars, componentVars>>

NextRuns == ProcessQuery

SpecRuns == InitRuns /\ [][NextRuns]_vars

----------------------------------------------------------------------------
(* The chat page and one request through process_query *)

MaxCandidates == 3
MaxDropped == 1

\* the texts the input box can hold; " " is white space at either end
InputTexts == {<<>>, <<" ">>, <<" ", "what">>, <<"Audit", " ">>}

\* the suggestion buttons of the greeting overlay
Suggestions == {<<"what", "standard", "deduction">>}

RECURSIVE trim_start(_)
trim_start(t) == IF t # <<>> /\ Head(t) = " " THEN trim_start(Tail(t)) ELSE t

RECURSIVE trim_end(_)
trim_end(t) ==
    IF t # <<>> /\ t[Len(t)] = " " THEN trim_end(SubSeq(t, 1, Len(t) - 1)) ELSE t

\* an input text taken as it was typed
trim_nothing(t) == t

\* input.trim()
trim(t) == trim_end(trim_start(t))

\* the message the page shows when sendQuery rejects
Unavailable == <<"Concierge", "is", "temporarily", "unavailable">>

\* a catch branch that shows the failure under the expert's role
errorMessage_expert ==
    [role |-> "expert", content |-> Unavailable, route_decision |-> None]

\* const errorMessage: Message = {role: "assistant", content: "Concierge is
\* temporarily unavailable, please try again."}, without metadata
errorMessage ==
    [role |-> "assistant", content |-> Unavailable, route_decision |-> None]

\* a guard that looks at the text only
send_refused_if_empty(textToSend, loading) == textToSend = <<>>

\* if (!textToSend || isLoading) return
send_refused(textToSend, loading) == textToSend = <<>> \/ loading

\* the messages and stored history lines of one earlier exchange
EarlierMessages ==
    <<[role |-> "user", content |-> <<"what">>, route_decision |-> None],
      [role |-> "assistant", content |-> <<"expert">>, route_decision |-> "ai"]>>
EarlierExchange == <<"user: what", "assistant: expert">>

\* a contextualizer that rewrites every query
history_exists_always(h) == TRUE

\* the contextualizer runs the rewrite only against a history
history_exists(h) == h # <<>>

\* texts the rewriting LLM answers with
Rewrites == {<<"what">>, <<"what", "audit">>}

\* texts the answering LLM answers with
GeneratedAnswers == {<<"expert">>, <<"[1]">>, <<"Consult", "an", "expert">>}

\* lexical score and vector similarity of a hybrid search row (hundredths)
CandidateScores ==
    {[bm25_score |-> 60, similarity |-> 0],
     [bm25_score |-> 0, similarity |-> 50],
     [bm25_score |-> 60, similarity |-> 100]}

\* bm25_weight 0.5 and vector_weight 0.5 of the hybrid_search wrapper
combined_score(sc) == 5 * sc.bm25_score + 5 * sc.similarity

\* the lists hybrid_search returns: rows in combined_score order, the id of
\* a row being its position; a row carries no rerank_score yet
CandidateLists ==
    {[k \in 1..Len(sc) |->
        [id |-> k, bm25_score |-> sc[k].bm25_score,
         similarity |-> sc[k].similarity,
         combined_score |-> combined_score(sc[k]),
         reranked |-> FALSE, rerank_score |-> 0, rerank_rank |-> 0]] :
     sc \in {x \in SeqsUpTo(CandidateScores, MaxCandidates) :
               \A a, b \in 1..Len(x) :
                   a < b => combined_score(x[a]) >= combined_score(x[b])}}

\* retrieve_documents(query, k = 2)
top_k == 2

\* reranked.results: top_n distinct indices, the most relevant first
RerankResults(n, top_n) ==
    {r \in [1..Min(n, top_n) -> [index : 1..n, relevance_score : RerankScores]] :
        \A a, b \in 1..Len(r) :
            a < b => /\ r[a].index # r[b].index
                     /\ r[a].relevance_score >= r[b].relevance_score}

\* {**original_doc, 'rerank_score': ..., 'rerank_rank': i + 1}
reranked_docs(cands, results) ==
    [i \in 1..Len(results) |->
        [cands[results[i].index] EXCEPT
            !.reranked = TRUE,
            !.rerank_score = results[i].relevance_score,
            !.rerank_rank = i]]

\* a truncation that keeps the last k rows
take_last(cands, k) == SubSeq(cands, Len(cands) - Min(k, Len(cands)) + 1, Len(cands))

\* candidates[:k]
take(cands, k) == SubSeq(cands, 1, Min(k, Len(cands)))

\* a page that leaves the loading flag as it is when the request settles
finally_skipped(loading) == loading

\* finally { setIsLoading(false) }
finally(loading) == FALSE

pageRest == <<intent, complexity_score, urgency, confidence, route_decision,
              answerVars, hybridVars, expertVars, runVars, requestVars,
              componentVars>>

InitRequest ==
    /\ pc = "idle"
    /\ query = <<>> /\ intent = None /\ complexity_score = 0
    /\ urgency = FALSE /\ confidence = 0 /\ route_decision = None
    /\ documents = <<>> /\ cleaned_answer = <<>>
    /\ IdleHybrid /\ IdleExpert /\ IdleRuns /\ IdleComponents
    /\ standalone_query = <<>> /\ calls = <<>> /\ candidates = <<>>
    /\ reranker \in BOOLEAN
    /\ expert = None /\ matchedExpert = None
    /\ \/ messages = <<>> /\ conversationId = None /\ history = <<>>
       \/ messages = EarlierMessages /\ conversationId = "c1"
            /\ history = EarlierExchange
    /\ input = <<>> /\ isLoading = FALSE /\ dropped = 0

\* onChange: setInput(e.target.value)
SetInput ==
    /\ pc = "idle"
    /\ \E text \in InputTexts \ {input} : input' = text
    /\ UNCHANGED <<pc, query, pageRest, messages, isLoading, conversationId,
                   dropped, matchedExpert>>

\* handleSend(queryText?): a suggestion button passes its text, the input
\* box passes nothing
HandleSend ==
    /\ pc = "idle" \/ isLoading
    /\ \E queryText \in {<<>>} \cup (IF messages = <<>> THEN Suggestions ELSE {}) :
        LET textToSend == IF queryText # <<>> THEN queryText ELSE trim(input)
        IN IF send_refused(textToSend, isLoading)
           THEN /\ dropped < MaxDropped
                /\ dropped' = dropped + 1
                /\ UNCHANGED <<pc, query, messages, input, isLoading>>
           ELSE /\ messages' = Append(messages,
                                  [role |-> "user", content |-> textToSend,
                                   route_decision |-> None])
                /\ input' = <<>>
                /\ isLoading' = TRUE
                /\ query' = textToSend
                /\ pc' = "sent"
                /\ UNCHANGED dropped
    /\ UNCHANGED <<pageRest, conversationId, matchedExpert>>

backendRest == <<query, hybridVars, expertVars, runVars, history, reranker,
                 chatVars, componentVars>>

\* process_query: the classifier and the complexity scorer
ClassifyAndScore ==
    /\ pc = "sent"
    /\ intent' = classify(query)
    /\ complexity_score' = score_complexity(query, intent')
    /\ urgency' = has_urgency(query)
    /\ calls' = Append(calls, <<"classifier", "ok">>)
    /\ pc' = "analysed"
    /\ UNCHANGED <<backendRest, expert, confidence, route_decision, answerVars,
                   standalone_query, candidates>>

\* get_conversation_history, then contextualize_query when there is a history
ContextualizeQuery ==
    /\ pc = "analysed"
    /\ LET read == Append(calls, <<"conversation_store", "ok">>)
       IN IF ~history_exists(history)
          THEN /\ standalone_query' = query
               /\ calls' = read
               /\ pc' = "contextualized"
          ELSE \/ \E content \in Rewrites :
                    /\ standalone_query' = content
                    /\ calls' = Append(read, <<"llm_contextualize", "ok">>)
                    /\ pc' = "contextualized"
               \/ /\ calls' = Append(read, <<"llm_contextualize", "error">>)
                  /\ pc' = "failed"
                  /\ UNCHANGED standalone_query
               \/ /\ calls' = Append(read, <<"llm_contextualize", "timeout">>)
                  /\ pc' = "hung"
                  /\ UNCHANGED standalone_query
    /\ UNCHANGED <<backendRest, expert, intent, complexity_score, urgency, confidence,
                   route_decision, answerVars, candidates>>

\* retrieve_documents, stage 1: hybrid_search embeds the query and calls the
\* SQL function
HybridSearchCall ==
    /\ pc = "contextualized"
    /\ \/ \E rows_out \in CandidateLists :
            /\ candidates' = rows_out
            /\ calls' = Append(calls, <<"hybrid_search", "ok">>)
            /\ pc' = "candidates"
       \/ /\ calls' = Append(calls, <<"hybrid_search", "error">>)
          /\ pc' = "failed"
          /\ UNCHANGED candidates
       \/ /\ calls' = Append(calls, <<"hybrid_search", "timeout">>)
          /\ pc' = "hung"
          /\ UNCHANGED candidates
    /\ UNCHANGED <<backendRest, expert, intent, complexity_score, urgency, confidence,
                   route_decision, answerVars, standalone_query>>

\* retrieve_documents, stage 2: the reranker, or the first k candidates
\* when there is none or its call fails or runs out of time
RerankCandidates ==
    /\ pc = "candidates"
    /\ IF reranker
       THEN \/ \E results \in RerankResults(Len(candidates), top_k) :
                 /\ documents' = reranked_docs(candidates, results)
                 /\ calls' = Append(calls, <<"rerank", "ok">>)
                 /\ pc' = "retrieved"
            \/ \E result \in {"error", "timeout"} :
                 /\ documents' = take(candidates, top_k)
                 /\ calls' = Append(calls, <<"rerank", result>>)
                 /\ pc' = "retrieved"
       ELSE /\ documents' = take(candidates, top_k)
            /\ pc' = "retrieved"
            /\ UNCHANGED calls
    /\ UNCHANGED <<backendRest, expert, intent, complexity_score, urgency, confidence,
                   route_decision, cleaned_answer, standalone_query, candidates>>

\* the answering LLM call through the fallback chain, and the citation
\* cleaning of its answer
GenerateResponse ==
    /\ pc = "retrieved"
    /\ \/ \E content \in GeneratedAnswers :
            /\ cleaned_answer' = clean_answer(content)
            /\ calls' = Append(calls, <<"llm_generate", "ok">>)
            /\ pc' = "generated"
       \/ /\ calls' = Append(calls, <<"llm_generate", "error">>)
          /\ pc' = "failed"
          /\ UNCHANGED cleaned_answer
       \/ /\ calls' = Append(calls, <<"llm_generate", "timeout">>)
          /\ pc' = "hung"
          /\ UNCHANGED cleaned_answer
    /\ UNCHANGED <<backendRest, expert, intent, complexity_score, urgency, confidence,
                   route_decision, documents, standalone_query, candidates>>

\* the expert the matcher returns from the registry
MatchedExperts == {"expert_1"}

\* a pipeline that runs the matcher whatever the route
matcher_invoked_always(route) == TRUE

\* "Expert matcher scores candidates on multi-factor algorithm (if
\* escalating)"
matcher_invoked(route) == route = "human"

\* calculate_confidence, the routing decision, the expert matcher for a
\* HUMAN route, and the saving of the exchange
RouteAndRespond ==
    /\ pc = "generated"
    /\ IF documents = <<>>
       THEN /\ pc' = "failed"
            /\ UNCHANGED <<confidence, route_decision, calls, expert>>
       ELSE LET conf == deflate(calculate_confidence(max_similarity(documents),
                                                     max_rerank_score(documents),
                                                     citations_found(cleaned_answer)),
                                cleaned_answer)
                route == decide_route(complexity_score, conf, urgency)
                matched == IF matcher_invoked(route)
                           THEN Append(calls, <<"expert_matcher", "ok">>)
                           ELSE calls
            IN /\ confidence' = conf
               /\ route_decision' = route
               /\ IF matcher_invoked(route)
                  THEN expert' \in MatchedExperts
                  ELSE expert' = None
               /\ calls' = Append(matched, <<"conversation_store", "ok">>)
               /\ pc' = "responded"
    /\ UNCHANGED <<backendRest, intent, complexity_score, urgency, answerVars,
                   standalone_query, candidates>>

\* the platform ends a function that runs for 60 seconds
FunctionTimeout ==
    /\ pc = "hung"
    /\ pc' = "failed"
    /\ UNCHANGED <<query, pageRest, chatVars>>

\* handleSend after sendQuery resolved
HandleResponse ==
    /\ pc = "responded"
    /\ conversationId' = "c1"
    /\ messages' = Append(messages,
                      [role |-> IF route_decision = "human" THEN "expert" ELSE "assistant",
                       content |-> cleaned_answer,
                       route_decision |-> route_decision])
    /\ matchedExpert' = IF expert # None THEN expert ELSE matchedExpert
    /\ isLoading' = finally(isLoading)
    /\ pc' = "done"
    /\ UNCHANGED <<query, pageRest, input, dropped>>

\* handleSend's catch branch after sendQuery rejected
HandleFailure ==
    /\ pc = "failed"
    /\ messages' = Append(messages, errorMessage)
    /\ isLoading' = finally(isLoading)
    /\ pc' = "done"
    /\ UNCHANGED <<query, pageRest, input, conversationId, dropped,
                   matchedExpert>>

BackendStep ==
    \/ ClassifyAndScore \/ ContextualizeQuery \/ HybridSearchCall
    \/ RerankCandidates \/ GenerateResponse \/ RouteAndRespond
    \/ FunctionTimeout

PageStep == HandleResponse \/ HandleFailure

NextRequest ==
    \/ SetInput \/ HandleSend
    \/ ClassifyAndScore \/ ContextualizeQuery \/ HybridSearchCall
    \/ RerankCandidates \/ GenerateResponse \/ RouteAndRespond
    \/ FunctionTimeout
    \/ HandleResponse \/ HandleFailure

SpecRequest == InitRequest /\ [][NextRequest]_vars

\* the backend and the page's continuation run whenever they can
SpecRequestFair ==
    SpecRequest /\ WF_vars(BackendStep) /\ WF_vars(PageStep)

----------------------------------------------------------------------------
(* SpecClassify: the intent classifier on its own *)

MaxClassifyLen == 3

ClassifierWords == {"what", "Audit", "irs", "crypto", "staking", "1040", "w-2"}
ClassifierQueries == SeqsUpTo(ClassifierWords, MaxClassifyLen)

InitClassify ==
    /\ pc = "classify"
    /\ query \in ClassifierQueries
    /\ intent = None /\ intent_confidence = 0
    /\ complexity_score = None /\ urgency = None
    /\ confidence = None /\ route_decision = None
    /\ IdleAnswer /\ IdleHybrid /\ IdleExpert
    /\ IdleRuns /\ IdleRequest /\ IdleChat /\ IdleExpand /\ IdleLLM
    /\ IdleInit /\ IdleSend
    /\ IdleStored

\* SimpleIntentClassifier.classify(query)
Classify ==
    /\ pc = "classify"
    /\ intent' = classify(query)
    /\ intent_confidence' = classify_confidence(query)
    /\ pc' = "intent"
    /\ UNCHANGED <<query, complexity_score, urgency, confidence, route_decision,
                   answerVars, hybridVars, expertVars, runVars, requestVars,
                   chatVars, expandVars, llmVars, initVars, sendVars, storedVars>>

NextClassify == Classify

SpecClassify == InitClassify /\ [][NextClassify]_vars

----------------------------------------------------------------------------
(* SpecExpand: neighbour-chunk expansion and the context block *)

MaxChunkId == 11
MaxExpandDocs == 2

\* split_into_paragraphs(chapter_text, max_length=500)
max_length == 500
\* "max 2 chunks = 1000 char total"
MAX_CONTEXT_CHARS == 1000

Chapters == {"ch1", "ch2"}
ExpandWindows == {0, 1}
\* a document whose metadata carries no chunk_id
Missing == -1

\* knowledge_documents: every chapter was ingested as chunks 0..MaxChunkId
knowledge_documents ==
    {[chapter |-> c, chunk_id |-> n] : c \in Chapters, n \in 0..MaxChunkId}

\* str(n) of a non-negative integer, as its sequence of decimal digits
RECURSIVE str(_)
str(n) == IF n < 10 THEN <<n>> ELSE Append(str(n \div 10), n % 10)

\* a <= b between two values of SQL type text made of digits
RECURSIVE text_le(_, _)
text_le(a, b) ==
    IF a = <<>> THEN TRUE
    ELSE IF b = <<>> THEN FALSE
    ELSE IF Head(a) # Head(b) THEN Head(a) < Head(b)
    ELSE text_le(Tail(a), Tail(b))

\* metadata->>chunk_id, the JSON field read as text
chunk_id_text(row) == str(row.chunk_id)

\* the rows of S in ascending order of metadata->>chunk_id
RECURSIVE order_by_chunk_id(_)
order_by_chunk_id(S) ==
    IF S = {} THEN <<>>
    ELSE LET first == CHOOSE r \in S :
                 \A o \in S : text_le(chunk_id_text(r), chunk_id_text(o))
         IN <<first>> \o order_by_chunk_id(S \ {first})

\* the neighbours query of expand_chunks
neighbors_result(chapter, chunk_id, by) ==
    order_by_chunk_id(
        {r \in knowledge_documents :
            /\ r.chapter = chapter
            /\ text_le(str(chunk_id - by), chunk_id_text(r))
            /\ text_le(chunk_id_text(r), str(chunk_id + by))})

\* doc['metadata'].get('chunk_id') or doc.get('chunk_id'): 0 is falsy and
\* the document has no top-level chunk_id
chunk_id_of(doc) == IF doc.chunk_id = 0 THEN Missing ELSE doc.chunk_id

\* an entry that recomputes the rerank fields instead of keeping them
expanded_entry_rescored(doc, expanded_content) ==
    [doc EXCEPT !.content = expanded_content, !.was_expanded = TRUE,
                !.rerank_score = 0, !.rerank_rank = 0]

\* {**doc, 'content': expanded_content, 'was_expanded': True}
expanded_entry(doc, expanded_content) ==
    [doc EXCEPT !.content = expanded_content, !.was_expanded = TRUE]

\* the body of the loop of expand_chunks; a content is the sequence of the
\* chunks joined by '\n'
expand_one(doc, by) ==
    IF chunk_id_of(doc) = Missing THEN doc
    ELSE expanded_entry(doc, neighbors_result(doc.chapter, chunk_id_of(doc), by))

expand_chunks(docs, by) == [i \in 1..Len(docs) |-> expand_one(docs[i], by)]

\* the document a retrieval hands over at rank i for chunk n of chapter c:
\* the scores fall with the rank, and the content is the chunk that matched
retrieved_doc(i, c, n) ==
    [id |-> i, chapter |-> c, chunk_id |-> n, similarity |-> 90 - 10 * i,
     combined_score |-> 80 - 10 * i, rerank_score |-> 95 - 5 * i,
     rerank_rank |-> i,
     content |-> <<[chapter |-> c, chunk_id |-> IF n = Missing THEN 0 ELSE n]>>,
     was_expanded |-> FALSE]

\* the chunks a document can stand for, with or without a chunk id
MatchedChunks == Chapters \X ({Missing} \cup (0..MaxChunkId))

\* the ranked lists of exactly k documents
FinalDocuments(k) ==
    {[i \in 1..k |-> retrieved_doc(i, f[i][1], f[i][2])] :
        f \in [1..k -> MatchedChunks]}

\* len() of a content of k chunks of max_length characters joined by '\n'
content_chars(content) ==
    IF content = <<>> THEN 0
    ELSE Len(content) * max_length + (Len(content) - 1)

\* "\n\n".join(f"[Source {i+1}: {title}]\n{content}"), as the numbered
\* entries of the block
format_context(docs) ==
    [i \in 1..Len(docs) |-> [source |-> i, content |-> docs[i].content]]

RECURSIVE sum_chars(_)
sum_chars(block) ==
    IF block = <<>> THEN 0
    ELSE content_chars(Head(block).content) + sum_chars(Tail(block))

\* the characters of document content in the block (its headers and
\* separators come on top)
context_chars(block) == sum_chars(block)

expandRest == <<query, intent, complexity_score, urgency, confidence,
                route_decision, cleaned_answer, hybridVars, expertVars, runVars,
                requestVars, chatVars, classifyVars, llmVars, initVars,
                sendVars, storedVars>>

InitExpand ==
    /\ pc = "retrieved"
    /\ \E k \in 0..MaxExpandDocs : documents \in FinalDocuments(k)
    /\ expand_by \in ExpandWindows
    /\ expanded = <<>> /\ context = <<>>
    /\ query = None /\ intent = None /\ complexity_score = None
    /\ urgency = None /\ confidence = None /\ route_decision = None
    /\ cleaned_answer = None
    /\ IdleHybrid /\ IdleExpert /\ IdleRuns /\ IdleRequest /\ IdleChat
    /\ IdleClassify /\ IdleLLM /\ IdleInit /\ IdleSend
    /\ IdleStored

\* await self.expand_chunks(documents, expand_by)
ExpandChunks ==
    /\ pc = "retrieved"
    /\ expanded' = expand_chunks(documents, expand_by)
    /\ pc' = "expanded"
    /\ UNCHANGED <<documents, expand_by, context, expandRest>>

\* the neighbours query raises and nothing is returned
ExpandChunksFails ==
    /\ pc = "retrieved"
    /\ \E i \in 1..Len(documents) : chunk_id_of(documents[i]) # Missing
    /\ pc' = "failed"
    /\ UNCHANGED <<documents, expand_by, expanded, context, expandRest>>

\* the context block from the expanded documents
FormatExpandedContext ==
    /\ pc = "expanded"
    /\ context' = format_context(expanded)
    /\ pc' = "assembled"
    /\ UNCHANGED <<documents, expand_by, expanded, expandRest>>

\* the context block when expansion is switched off
FormatContext ==
    /\ pc = "retrieved"
    /\ context' = format_context(documents)
    /\ pc' = "assembled_plain"
    /\ UNCHANGED <<documents, expand_by, expanded, expandRest>>

NextExpand ==
    \/ ExpandChunks
    \/ ExpandChunksFails
    \/ FormatExpandedContext
    \/ FormatContext

SpecExpand == InitExpand /\ [][NextExpand]_vars

----------------------------------------------------------------------------
(* SpecLLM: one completion through the provider fallback chain *)

MaxRetries == 1

\* self.model followed by self.fallbacks
chain == <<"groq/llama-3.3-70b-versatile",
           "openrouter/google/gemini-2.0-flash-exp:free",
           "gpt-4o-mini">>

CompletionTexts == {"answer_a", "answer_b"}
CallResults == {"ok", "error", "timeout"}

\* a chain that keeps calling providers after one has answered
chain_stops_never(result) == FALSE

\* the completion is over once a provider has answered
chain_stops(result) == result = "ok"

llmRest == <<query, intent, complexity_score, urgency, confidence,
             route_decision, answerVars, hybridVars, expertVars, runVars,
             requestVars, chatVars, classifyVars, expandVars, initVars,
             sendVars, storedVars>>

InitLLM ==
    /\ pc = "calling"
    /\ provider = 1 /\ retries = 0
    /\ llm_attempts = <<>> /\ completion = "pending"
    /\ query = None /\ intent = None /\ complexity_score = None
    /\ urgency = None /\ confidence = None /\ route_decision = None
    /\ IdleAnswer /\ IdleHybrid /\ IdleExpert /\ IdleRuns /\ IdleRequest
    /\ IdleChat /\ IdleClassify /\ IdleExpand /\ IdleInit /\ IdleSend
    /\ IdleStored

\* where the chain goes after one call: stop on an answer, else retry the
\* provider, else fall back to the next one, else give up
AfterCall(result) ==
    IF chain_stops(result)
    THEN /\ pc' = "completed" /\ UNCHANGED <<provider, retries>>
    ELSE IF result # "ok" /\ retries < MaxRetries
    THEN /\ pc' = "calling" /\ retries' = retries + 1 /\ UNCHANGED provider
    ELSE IF provider < Len(chain)
    THEN /\ pc' = "calling" /\ provider' = provider + 1 /\ retries' = 0
    ELSE /\ pc' = "exhausted" /\ UNCHANGED <<provider, retries>>

\* the provider answers
ProviderAnswers ==
    /\ pc = "calling"
    /\ \E text \in CompletionTexts :
           /\ llm_attempts' = Append(llm_attempts,
                  [provider |-> provider, result |-> "ok", text |-> text])
           /\ completion' = IF completion = "pending" THEN text ELSE completion
    /\ AfterCall("ok")
    /\ UNCHANGED llmRest

\* the provider fails (rate limit, outage) or exceeds its time
ProviderFails ==
    /\ pc = "calling"
    /\ \E result \in CallResults \ {"ok"} :
           /\ llm_attempts' = Append(llm_attempts,
                  [provider |-> provider, result |-> result, text |-> "none"])
           /\ AfterCall(result)
    /\ UNCHANGED <<completion, llmRest>>

NextLLM == ProviderAnswers \/ ProviderFails

SpecLLM == InitLLM /\ [][NextLLM]_vars

----------------------------------------------------------------------------
(* SpecInit: lazy service initialization under concurrent requests *)

MaxThreads == 2

Threads == 1..MaxThreads

\* get_llm, get_embeddings, get_supabase, in the order they are first called
getters == <<"get_llm", "get_embeddings", "get_supabase">>

\* an initialization that any thread may enter at any time
may_enter_unguarded(holder) == TRUE

\* "Thread-safe initialization prevents race conditions": one thread at a
\* time is inside the initialization
may_enter(holder) == holder = 0

initRest == <<pc, query, intent, complexity_score, urgency, confidence,
              route_decision, answerVars, hybridVars, expertVars, runVars,
              requestVars, chatVars, classifyVars, expandVars, llmVars,
              sendVars, storedVars>>

InitInit ==
    /\ threads = [t \in Threads |->
                     [at |-> "request", phase |-> "middleware", getter |-> 1,
                      waited |-> FALSE]]
    /\ lock = 0
    /\ services_initialized = FALSE
    /\ cache = {}
    /\ constructed = [g \in 1..Len(getters) |-> 0]
    /\ initializations = 0
    /\ pc = None /\ query = None /\ intent = None /\ complexity_score = None
    /\ urgency = None /\ confidence = None /\ route_decision = None
    /\ IdleAnswer /\ IdleHybrid /\ IdleExpert /\ IdleRuns /\ IdleRequest
    /\ IdleChat /\ IdleClassify /\ IdleExpand /\ IdleLLM /\ IdleSend
    /\ IdleStored

\* a request reaches the middleware and enters the initialization section
Enter(t) ==
    /\ threads[t].at = "request"
    /\ may_enter(lock)
    /\ lock' = t
    /\ threads' = [threads EXCEPT ![t].at = "check"]
    /\ UNCHANGED <<services_initialized, cache, constructed, initializations,
                   initRest>>

\* a request reaches the middleware while another one is initializing
Wait(t) ==
    /\ threads[t].at = "request"
    /\ ~may_enter(lock)
    /\ ~threads[t].waited
    /\ threads' = [threads EXCEPT ![t].waited = TRUE]
    /\ UNCHANGED <<lock, services_initialized, cache, constructed,
                   initializations, initRest>>

\* if not _services_initialized: initialize, else go on to the handler
CheckFlag(t) ==
    /\ threads[t].at = "check"
    /\ IF services_initialized
       THEN /\ threads' = [threads EXCEPT ![t].at = "lookup",
                                          ![t].phase = "handler",
                                          ![t].getter = 1]
            /\ lock' = IF lock = t THEN 0 ELSE lock
            /\ UNCHANGED initializations
       ELSE /\ threads' = [threads EXCEPT ![t].at = "lookup",
                                          ![t].phase = "initializing",
                                          ![t].getter = 1]
            /\ initializations' = initializations + 1
            /\ UNCHANGED lock
    /\ UNCHANGED <<services_initialized, cache, constructed, initRest>>

\* what a thread does after one getter returned
after_getter(t) ==
    IF threads[t].getter < Len(getters)
    THEN [threads EXCEPT ![t].at = "lookup", ![t].getter = threads[t].getter + 1]
    ELSE [threads EXCEPT ![t].at =
              IF threads[t].phase = "initializing" THEN "initialized" ELSE "done"]

\* the lru_cache wrapper looks the call up
Lookup(t) ==
    /\ threads[t].at = "lookup"
    /\ threads' = IF threads[t].getter \in cache
                  THEN after_getter(t)
                  ELSE [threads EXCEPT ![t].at = "construct"]
    /\ UNCHANGED <<lock, services_initialized, cache, constructed,
                   initializations, initRest>>

\* on a miss the wrapper calls the function and stores what it returned
Construct(t) ==
    /\ threads[t].at = "construct"
    /\ constructed' = [constructed EXCEPT ![threads[t].getter] = @ + 1]
    /\ cache' = cache \cup {threads[t].getter}
    /\ threads' = after_getter(t)
    /\ UNCHANGED <<lock, services_initialized, initializations, initRest>>

\* _services_initialized = True, and the request goes on to its handler
FinishInit(t) ==
    /\ threads[t].at = "initialized"
    /\ services_initialized' = TRUE
    /\ lock' = IF lock = t THEN 0 ELSE lock
    /\ threads' = [threads EXCEPT ![t].at = "lookup", ![t].phase = "handler",
                                  ![t].getter = 1]
    /\ UNCHANGED <<cache, constructed, initializations, initRest>>

\* the thread serves the next request
NextRequestArrives(t) ==
    /\ threads[t].at = "done"
    /\ threads' = [threads EXCEPT ![t].at = "request",
                                  ![t].phase = "middleware"]
    /\ UNCHANGED <<lock, services_initialized, cache, constructed,
                   initializations, initRest>>

NextInit ==
    \E t \in Threads :
        \/ Enter(t) \/ Wait(t) \/ CheckFlag(t) \/ Lookup(t) \/ Construct(t)
        \/ FinishInit(t) \/ NextRequestArrives(t)

SpecInit == InitInit /\ [][NextInit]_vars

----------------------------------------------------------------------------
(* SpecChat: the chat page over several queries, the backend seen only as *)
(* sendQuery resolving or rejecting                                        *)

MaxSends == 3

\* the QueryResponse bodies sendQuery can resolve with
Responses ==
    {[route_decision |-> "ai", expert |-> None, response |-> <<"[1]">>],
     [route_decision |-> "human", expert |-> "expert_1",
      response |-> <<"Consult", "an", "expert">>]}

chatRest == <<pc, query, intent, complexity_score, urgency, confidence,
              route_decision, answerVars, hybridVars, expertVars, runVars,
              requestVars, dropped, classifyVars, expandVars, llmVars, initVars,
              storedVars>>

InitChat ==
    /\ messages = <<>> /\ input = <<>> /\ isLoading = FALSE
    /\ conversationId = None /\ matchedExpert = None /\ dropped = None
    /\ inflight = <<>> /\ sent = <<>> /\ last_event = "loaded"
    /\ pc = None /\ query = None /\ intent = None /\ complexity_score = None
    /\ urgency = None /\ confidence = None /\ route_decision = None
    /\ IdleAnswer /\ IdleHybrid /\ IdleExpert /\ IdleRuns /\ IdleRequest
    /\ IdleClassify /\ IdleExpand /\ IdleLLM /\ IdleInit /\ IdleStored

\* onChange: setInput(e.target.value), at any time
TypeInput ==
    /\ \E text \in InputTexts \ {input} : input' = text
    /\ last_event' = "typed"
    /\ UNCHANGED <<messages, isLoading, conversationId, matchedExpert,
                   inflight, sent, chatRest>>

\* handleSend(queryText?) up to the call of sendQuery
SubmitQuery ==
    /\ \E queryText \in {<<>>} \cup (IF messages = <<>> THEN Suggestions ELSE {}) :
        LET textToSend == IF queryText # <<>> THEN queryText ELSE trim(input)
        IN IF send_refused(textToSend, isLoading)
           THEN /\ last_event' = IF isLoading THEN "refused_loading"
                                              ELSE "refused_empty"
                /\ last_event' # last_event
                /\ UNCHANGED <<messages, input, isLoading, inflight, sent>>
           ELSE /\ Len(sent) < MaxSends
                /\ messages' = Append(messages,
                                  [role |-> "user", content |-> textToSend,
                                   route_decision |-> None])
                /\ input' = <<>>
                /\ isLoading' = TRUE
                /\ inflight' = Append(inflight, Len(sent) + 1)
                /\ sent' = Append(sent, [conversation_id |-> conversationId,
                                         outcome |-> "pending"])
                /\ last_event' = "sent"
    /\ UNCHANGED <<conversationId, matchedExpert, chatRest>>

\* the conversation id a response carries: the one sent, or a new one
conversation_id_of(request) ==
    IF request.conversation_id # None THEN request.conversation_id ELSE "c1"

\* the inflight calls without call k
settle(calls_open, k) == SelectSeq(calls_open, LAMBDA c : c # k)

\* handleSend after sendQuery resolved
SendQueryResolves ==
    \E i \in 1..Len(inflight), data \in Responses :
        LET k == inflight[i]
        IN /\ conversationId' = conversation_id_of(sent[k])
           /\ matchedExpert' = IF data.expert # None THEN data.expert
                                                    ELSE matchedExpert
           /\ messages' = Append(messages,
                  [role |-> IF data.route_decision = "human" THEN "expert"
                                                            ELSE "assistant",
                   content |-> data.response,
                   route_decision |-> data.route_decision])
           /\ isLoading' = finally(isLoading)
           /\ inflight' = settle(inflight, k)
           /\ sent' = [sent EXCEPT ![k].outcome = "resolved"]
           /\ last_event' = "resolved"
           /\ UNCHANGED <<input, chatRest>>

\* handleSend's catch branch after sendQuery rejected
SendQueryRejects ==
    \E i \in 1..Len(inflight) :
        LET k == inflight[i]
        IN /\ messages' = Append(messages, errorMessage)
           /\ isLoading' = finally(isLoading)
           /\ inflight' = settle(inflight, k)
           /\ sent' = [sent EXCEPT ![k].outcome = "rejected"]
           /\ last_event' = "rejected"
           /\ UNCHANGED <<input, conversationId, matchedExpert, chatRest>>

NextChat ==
    \/ TypeInput
    \/ SubmitQuery
    \/ SendQueryResolves
    \/ SendQueryRejects

SpecChat == InitChat /\ [][NextChat]_vars

----------------------------------------------------------------------------
(* SpecStoredExperts: the matcher on the experts as the database holds them *)

\* expertise_embedding IS NULL: the column after the migration, and of
\* every seeded expert
NULL == <<>>

StoredEmbeddings == {NULL, <<0, 0>>, <<3, 4>>}
StoredQueryEmbeddings == {<<4, 3>>, <<0, 0>>}

StoredProfiles ==
    [specialties : {{"tax", "crypto"}, {"bookkeeping"}},
     status : {"available", "busy"},
     avg_rating : {45},
     expertise_embedding : StoredEmbeddings]
StoredLists == UNION {[1..n -> StoredProfiles] : n \in 1..MaxExperts}

\* what the cosine similarity of the loop body ends with: zip(q, None)
\* raises TypeError, a zero norm makes the division raise
semantic_error(q, e) ==
    IF e.expertise_embedding = NULL THEN "TypeError"
    ELSE IF norm(q) * norm(e.expertise_embedding) = 0 THEN "ZeroDivisionError"
    ELSE "none"

\* the exception that ends the loop over the experts: that of the first
\* expert, in list order, whose similarity cannot be computed
RECURSIVE first_error(_, _)
first_error(q, es) ==
    IF es = <<>> THEN "none"
    ELSE IF semantic_error(q, Head(es)) # "none" THEN semantic_error(q, Head(es))
    ELSE first_error(q, Tail(es))

storedRest == <<query, intent, complexity_score, urgency, confidence,
                route_decision, answerVars, hybridVars, experts,
                query_embedding, prev_best, runVars, requestVars, chatVars,
                classifyVars, expandVars, llmVars, initVars, sendVars>>

InitStoredExperts ==
    /\ pc = "match"
    /\ query = None /\ complexity_score = None /\ confidence = None
    /\ route_decision = "human"
    /\ intent \in MatcherIntents
    /\ urgency \in BOOLEAN
    /\ experts \in StoredLists
    /\ query_embedding \in StoredQueryEmbeddings
    /\ scores = <<>> /\ best = 0 /\ prev_best = 0
    /\ raised = "none"
    /\ IdleAnswer /\ IdleHybrid /\ IdleRuns /\ IdleRequest /\ IdleChat
    /\ IdleClassify /\ IdleExpand /\ IdleLLM /\ IdleInit /\ IdleSend

\* find_best_expert(query, intent, urgency) returns the best-scoring expert
MatcherReturns ==
    /\ pc = "match"
    /\ first_error(query_embedding, experts) = "none"
    /\ scores' = [k \in 1..Len(experts) |->
                     score_expert(experts[k], intent, urgency, query_embedding)]
    /\ best' \in highest_scoring(scores')
    /\ pc' = "matched"
    /\ UNCHANGED <<raised, storedRest>>

\* find_best_expert(query, intent, urgency) ends with an exception
MatcherRaises ==
    /\ pc = "match"
    /\ first_error(query_embedding, experts) # "none"
    /\ raised' = first_error(query_embedding, experts)
    /\ pc' = "raised"
    /\ UNCHANGED <<scores, best, storedRest>>

NextStoredExperts == MatcherReturns \/ MatcherRaises

SpecStoredExperts == InitStoredExperts /\ [][NextStoredExperts]_vars

----------------------------------------------------------------------------
(* Claims C1 - C3 *)

\* C1: for every triple (complexity in 1..5, confidence, urgency flag) the
\* routing decision is HUMAN exactly when complexity >= 4 or confidence < 0.60
\* or the urgency flag is set, and AI otherwise; confidence exactly 0.60 with
\* complexity <= 3 and no urgency gives AI.
C1_RouteTable ==
    pc = "table_done" =>
        /\ route_decision \in {"ai", "human"}
        /\ (route_decision = "human") <=>
               (complexity_score >= 4 \/ confidence < 60000 \/ urgency = TRUE)
        /\ (confidence = 60000 /\ complexity_score <= 3 /\ urgency = FALSE)
               => route_decision = "ai"

C1_Witness ==
    /\ pc = "table_done"
    /\ confidence = 60000 /\ complexity_score = 3 /\ urgency = FALSE
    /\ route_decision = "ai"

\* the query text holds an urgency indicator, in any letter case
UrgencyIndicatorIn(q) ==
    \E k \in 1..Len(q) : q[k] \in {"audit", "Audit", "deadline"}

\* C2: a query whose text matches an urgency indicator gets complexity 5 and
\* its response is routed to HUMAN, whatever its intent, its technical
\* keywords and the confidence computed later.
C2_UrgencyForcesHuman ==
    (pc \in {"scored", "responded"} /\ UrgencyIndicatorIn(query)) =>
        /\ complexity_score = 5
        /\ pc = "responded" => route_decision = "human"

C2_Witness ==
    /\ pc = "responded"
    /\ query = <<"what", "Audit">> /\ intent = "simple_tax"
    /\ confidence = 95000
    /\ complexity_score = 5 /\ route_decision = "human"

\* C3: for every (query text, intent) pair, also for an intent the score
\* table does not list, the complexity score is one of 1, 2, 3, 4, 5.
C3_ComplexityRange ==
    pc \in {"scored", "responded"} => complexity_score \in 1..5

C3_Witness ==
    /\ pc = "scored"
    /\ intent = "other" /\ query = <<"capital", "gains">>
    /\ complexity_score = 4

----------------------------------------------------------------------------
(* Claims C4 - C5 *)

\* C4: for every final candidate set (also one whose similarities are zero
\* or negative) and every answer text, the confidence placed in the response
\* is at least 0 and at most 0.95.
C4_ConfidenceInRange ==
    pc = "answered" => (confidence >= 0 /\ confidence <= 95000)

\* the answer text holds the human-referral phrase, in any letter case
ReferralIn(answer) ==
    \E k \in 1..(Len(answer) - 2) :
        /\ answer[k] \in {"consult", "Consult"}
        /\ answer[k + 1] = "an"
        /\ answer[k + 2] = "expert"

----------------------------------------------------------------------------
(* Claims C6 - C9 *)

C7_TopKSorted ==
    runs >= 1 =>
        /\ Len(rows) <= match_count
        /\ \A a, b \in 1..Len(rows) : a < b =>
              /\ rows[a].id # rows[b].id
              /\ rows[a].combined_score >= rows[b].combined_score
        /\ \A x \in merged_rows(store, vector_results, weights) :
              (\A a \in 1..Len(rows) : rows[a].id # x.id) =>
                  \A a \in 1..Len(rows) : x.combined_score <= rows[a].combined_score

C7_Witness ==
    /\ runs >= 1 /\ match_count = 2 /\ Len(rows) = 2
    /\ rows[1].combined_score > rows[2].combined_score
    /\ Cardinality(merged_rows(store, vector_results, weights)) = 3

\* C8: of two merged candidates with equal combined_score the one with the
\* smaller id is ranked first, so two runs on the same query and store return
\* the same documents in the same order.
C8_TiesByIdDeterministic ==
    runs >= 1 =>
        /\ \A a, b \in 1..Len(rows) :
              (a < b /\ rows[a].combined_score = rows[b].combined_score)
                  => rows[a].id < rows[b].id
        /\ runs >= 2 => rows = prev_rows

\* C9: a document with no lexical hit whose vector similarity does not exceed
\* the floor 0.3 never appears in the result.
C9_SimilarityFloor ==
    runs >= 1 =>
        \A k \in 1..Len(rows) :
            ~(~store[rows[k].id].matches /\ store[rows[k].id].similarity <= 30)

----------------------------------------------------------------------------
(* Claim C10 *)

----------------------------------------------------------------------------
(* Claims C11 - C12 *)

OtherTerms(sc) ==
    30 * sc.availability_score + 20 * sc.performance_score + 10 * sc.semantic_score

\* no expert's specialty set contains the classified intent
NoSpecialtyMatch == \A k \in 1..Len(experts) : intent \notin experts[k].specialties

\* C12 as stated: when no expert's specialty set contains the classified
\* intent, every specialty_score is the baseline 0.3 and the selected expert
\* is one an arg-max over the availability, performance and semantic terms
\* alone selects, with and without the urgency flag (the three terms taken
\* with the urgency boost of the expert they belong to).
C12_BaselineArgMaxOtherTerms ==
    (pc \in {"matched", "matched_again"} /\ NoSpecialtyMatch) =>
        /\ \A k \in 1..Len(experts) : scores[k].specialty_score = 30
        /\ \A k \in 1..Len(experts) :
              LET boost(j) == IF urgency /\ experts[j].status = "available"
                              THEN 12 ELSE 10
              IN boost(best) * OtherTerms(scores[best])
                   >= boost(k) * OtherTerms(scores[k])

\* C12, amended: when no expert's specialty set contains the classified
\* intent, every specialty_score is the baseline 0.3; without the urgency
\* flag the selected expert is one an arg-max over the availability,
\* performance and semantic terms alone selects; with the flag the selected
\* expert maximises (0.12 + those terms) * 1.2 for an available expert and
\* 0.12 + those terms for any other.
C12_BaselineArgMax ==
    (pc \in {"matched", "matched_again"} /\ NoSpecialtyMatch) =>
        /\ \A k \in 1..Len(experts) : scores[k].specialty_score = 30
        /\ urgency = FALSE =>
              \A k \in 1..Len(experts) :
                  OtherTerms(scores[best]) >= OtherTerms(scores[k])
        /\ urgency = TRUE =>
              \A k \in 1..Len(experts) :
                  LET boost(j) == IF experts[j].status = "available" THEN 12 ELSE 10
                  IN boost(best) * (1200 + OtherTerms(scores[best]))
                       >= boost(k) * (1200 + OtherTerms(scores[k]))

\* no specialty matches, no urgency: the busy expert with the better rating
\* loses to the available one
C12_Witness ==
    /\ pc = "matched" /\ urgency = FALSE /\ NoSpecialtyMatch
    /\ Len(experts) = 2
    /\ experts[1].status = "busy" /\ experts[2].status = "available"
    /\ experts[1].avg_rating > experts[2].avg_rating
    /\ scores[1].semantic_score = scores[2].semantic_score
    /\ OtherTerms(scores[2]) > OtherTerms(scores[1])
    /\ best = 2

----------------------------------------------------------------------------
(* Claim C13 *)

----------------------------------------------------------------------------
(* Claims C14 - C20 *)

\* the request made a call of the service with the result
Called(service, result) ==
    \E k \in 1..Len(calls) : calls[k] = <<service, result>>

\* the message the page appended last
LastMessage == messages[Len(messages)]

\* C14: if the contextualizer's LLM call times out or raises an error, the
\* contextualizer returns the original query text unmodified, retrieval runs
\* with that query, and the request ends with a normal QueryResponse, not
\* with an error caused by this step.
C14_ContextualizerFallback ==
    (Called("llm_contextualize", "error") \/ Called("llm_contextualize", "timeout")) =>
        /\ standalone_query = query
        /\ calls[Len(calls)][1] = "llm_contextualize" => pc = "contextualized"
        /\ (pc = "done" /\ Called("llm_generate", "ok") /\ documents # <<>>) =>
               LastMessage.route_decision \in {"ai", "human"}

C17_EmptyQueryRejected ==
    /\ pc = "idle" =>
          /\ Len(messages) = Len(history) /\ calls = <<>>
          /\ route_decision = None /\ isLoading = FALSE /\ query = <<>>
    /\ pc # "idle" =>
          /\ query # <<>>
          /\ query[1] # " " /\ query[Len(query)] # " "
          /\ messages[Len(history) + 1].content = query

\* a send of white space alone returned at the guard
C17_Witness ==
    /\ pc = "idle" /\ dropped = 1 /\ input = <<" ">>
    /\ messages = <<>> /\ isLoading = FALSE /\ calls = <<>>

\* C18: when the final candidate set is empty the request still completes
\* with a response, the confidence computed for it is below 0.60 and its
\* route_decision is HUMAN.
C18_EmptyRetrievalEscalates ==
    (documents = <<>> /\ Called("llm_generate", "ok") /\ pc # "generated") =>
        /\ pc \in {"responded", "done"}
        /\ confidence < 60000
        /\ route_decision = "human"
        /\ pc = "done" => LastMessage.route_decision = "human"

----------------------------------------------------------------------------
(* Claim C21 *)

\* the order in which intents win a tie
PriorityOrder == <<"urgent", "complex_tax", "bookkeeping", "simple_tax", "general">>

----------------------------------------------------------------------------
(* Claims C22 - C24 *)

\* the chunks an expanded entry was built from
ChunksOf(entry) == {entry.content[k] : k \in 1..Len(entry.content)}

Distance(a, b) == IF a >= b THEN a - b ELSE b - a

\* C22: the content of every expanded entry is built only from chunks of
\* the document's own chapter whose chunk index is within expand_by of the
\* document's index, so from at most 2*expand_by+1 chunks, whatever the
\* number of digits of the index.
C22_ExpansionWithinWindow ==
    pc = "expanded" =>
        \A i \in 1..Len(expanded) :
            expanded[i].was_expanded =>
                /\ \A c \in ChunksOf(expanded[i]) :
                       /\ c.chapter = documents[i].chapter
                       /\ Distance(c.chunk_id, documents[i].chunk_id) <= expand_by
                /\ Len(expanded[i].content) <= 2 * expand_by + 1

\* C23: expand_chunks returns one entry per input document, in the input
\* order, and each entry has the document's id, similarity, combined score,
\* rerank score and rerank rank; only content and was_expanded may differ.
C23_ExpansionKeepsScores ==
    pc = "expanded" =>
        /\ Len(expanded) = Len(documents)
        /\ \A i \in 1..Len(documents) :
               /\ expanded[i].id = documents[i].id
               /\ expanded[i].similarity = documents[i].similarity
               /\ expanded[i].combined_score = documents[i].combined_score
               /\ expanded[i].rerank_score = documents[i].rerank_score
               /\ expanded[i].rerank_rank = documents[i].rerank_rank
               /\ expanded[i].chapter = documents[i].chapter
               /\ expanded[i].chunk_id = documents[i].chunk_id

\* two documents went in, the second was expanded to other content and the
\* first, which has no chunk id, was passed through
C23_Witness ==
    /\ pc = "expanded" /\ Len(documents) = 2
    /\ documents[1].chunk_id = Missing /\ ~expanded[1].was_expanded
    /\ expanded[2].was_expanded
    /\ expanded[2].content # documents[2].content
    /\ documents[2].rerank_score # documents[1].rerank_score

\* C24: with or without expansion, the content in the context block never
\* exceeds the budget.
C24_ContextWithinBudget ==
    pc \in {"assembled", "assembled_plain"} =>
        context_chars(context) <= MAX_CONTEXT_CHARS

----------------------------------------------------------------------------
(* Claim C25 *)

\* C25: the providers are called in the order of the chain, starting with
\* the first; a provider is called only when every call before it failed or
\* timed out, the call before it being to the same provider or to the one
\* just before it in the chain; and the text returned is that of the first
\* (and only) call that succeeded.
C25_FallbackInOrder ==
    /\ \A k \in 1..Len(llm_attempts) :
           /\ k = 1 => llm_attempts[k].provider = 1
           /\ k > 1 =>
                 /\ llm_attempts[k - 1].result # "ok"
                 /\ llm_attempts[k].provider - llm_attempts[k - 1].provider
                        \in {0, 1}
    /\ pc = "completed" =>
           /\ llm_attempts[Len(llm_attempts)].result = "ok"
           /\ completion = llm_attempts[Len(llm_attempts)].text
    /\ pc = "exhausted" =>
           /\ completion = "pending"
           /\ \A p \in 1..Len(chain) :
                  \E k \in 1..Len(llm_attempts) : llm_attempts[k].provider = p

\* the first two providers failed and the third answered
C25_Witness ==
    /\ pc = "completed"
    /\ llm_attempts[Len(llm_attempts)].provider = 3
    /\ completion = "answer_b"
    /\ \E k \in 1..Len(llm_attempts) :
           llm_attempts[k].provider = 1 /\ llm_attempts[k].result = "timeout"
    /\ \E k \in 1..Len(llm_attempts) :
           llm_attempts[k].provider = 2 /\ llm_attempts[k].result = "error"

----------------------------------------------------------------------------
(* Claim C26 *)

\* C26: a QueryResponse carries an expert only if its route_decision is
\* human, and a request routed to the AI made no call to the expert matcher.
C26_MatcherOnlyForHuman ==
    pc \in {"responded", "done"} =>
        /\ expert # None => route_decision = "human"
        /\ matchedExpert # None => route_decision = "human"
        /\ route_decision = "ai" =>
              \A result \in {"ok", "error", "timeout"} :
                  ~Called("expert_matcher", result)

\* a request went through the whole pipeline, was routed to the AI and was
\* answered without an expert
C26_Witness ==
    /\ pc = "done" /\ route_decision = "ai"
    /\ Called("llm_generate", "ok") /\ Called("conversation_store", "ok")
    /\ expert = None /\ matchedExpert = None
    /\ LastMessage.role = "assistant" /\ LastMessage.content # Unavailable

----------------------------------------------------------------------------
(* Claim C27 *)

\* C27: however the first requests of one process interleave, the services
\* are initialized at most once and each heavy client is constructed at most
\* once, and a request that comes after the initialization finds every
\* client in the cache and constructs none.
C27_InitializedOnce ==
    /\ initializations <= 1
    /\ \A g \in 1..Len(getters) : constructed[g] <= 1
    /\ \A t \in Threads :
           threads[t].phase = "handler" => threads[t].at # "construct"

\* two requests arrived together: one initialized the services while the
\* other waited, and both have been served
C27_Witness ==
    /\ \A t \in Threads : threads[t].at = "done"
    /\ \E t \in Threads : threads[t].waited
    /\ services_initialized /\ initializations = 1
    /\ \A g \in 1..Len(getters) : constructed[g] = 1

----------------------------------------------------------------------------
(* Claims C28 - C29 *)

\* the messages of the thread with the given role
MessagesOf(role) == {k \in 1..Len(messages) : messages[k].role = role}

\* C28: at most one sendQuery call is in flight at any time, and a submit
\* made while one is in flight sends nothing and appends nothing: the user
\* messages are exactly the calls made, and the page is loading exactly
\* while a call is in flight.
C28_OneQueryInFlight ==
    /\ Len(inflight) <= 1
    /\ isLoading <=> inflight # <<>>
    /\ Cardinality(MessagesOf("user")) = Len(sent)
    /\ Len(messages) = 2 * Len(sent) - Len(inflight)

\* a submit was refused while the second query of the page was in flight
C28_Witness ==
    /\ last_event = "refused_loading"
    /\ isLoading /\ Len(inflight) = 1 /\ Len(sent) = 2
    /\ trim(input) # <<>>

\* the step in which a sendQuery call rejects
RejectStep == inflight' # inflight /\ last_event' = "rejected"

\* C29: when sendQuery rejects the page appends exactly one message, of
\* role assistant with the fixed text and no metadata, and leaves
\* conversationId, matchedExpert and the earlier messages as they were; the
\* query after a failed one is sent with the conversation id the failed one
\* was sent with.
C29_FailureKeepsConversation ==
    /\ [][RejectStep =>
            /\ messages' = Append(messages,
                   [role |-> "assistant", content |-> Unavailable,
                    route_decision |-> None])
            /\ conversationId' = conversationId
            /\ matchedExpert' = matchedExpert]_vars
    /\ [](\A k \in 1..(Len(sent) - 1) :
             sent[k].outcome = "rejected" =>
                 sent[k + 1].conversation_id = sent[k].conversation_id)

\* the second query of a conversation failed while an expert was on show,
\* and the third went out under the same conversation id
C29_Witness ==
    /\ Len(sent) = 3 /\ sent[2].outcome = "rejected"
    /\ sent[2].conversation_id = "c1" /\ sent[3].conversation_id = "c1"
    /\ matchedExpert = "expert_1"
    /\ messages[4] = errorMessage

----------------------------------------------------------------------------
(* Claim C30 *)

\* the expert's semantic similarity to the query is undefined
Degenerate(q, e) ==
    \/ e.expertise_embedding = NULL
    \/ norm(e.expertise_embedding) = 0
    \/ norm(q) = 0

\* C30: for every non-empty expert list the matcher returns an expert and
\* raises nothing, also when an expert's embedding is NULL or of zero norm
\* or the query's embedding is of zero norm, and the semantic term of such
\* an expert is 0.
C30_MatcherReturnsWithoutRaising ==
    pc # "match" =>
        /\ raised = "none"
        /\ best \in 1..Len(experts)
        /\ \A k \in 1..Len(experts) :
               Degenerate(query_embedding, experts[k])
                   => scores[k].semantic_score = 0

====
